---- MODULE Spec2Model ----
(***************************************************************************)
(* Deep-think refinement loop and version ledger of the design agent.      *)
(*                                                                         *)
(* The session state dictionary (ctx.session.state / tool_context.state)   *)
(* is the record `state`; the artifact store is `artifacts`.  The stages   *)
(* of deep_think_loop are one action each, in the order LoopAgent runs     *)
(* them.  Marketing variant: src/agent.py, src/deep_think_loop.py,         *)
(* src/tools/post_creator_tool.py; wardrobe variant: the files under       *)
(* src/wardrobe_design_agent/.                                             *)
(***************************************************************************)
EXTENDS Integers, Sequences, FiniteSets, TLC

(* ------------------------------ bounds --------------------------------- *)
\* successful save_artifact calls in one session
MaxSaves == 2
\* largest deep_think_iteration handed to LoopTerminationAgent on its own
MaxIterationInput == 5
\* direct update_asset_version calls in one session
MaxLedgerUpdates == 3
\* largest version number handed to update_asset_version directly
MaxVersionInput == 3
\* messages of the conversation the root agent's model is called on
MaxMessages == 2
\* images saved by tool calls that name a reference image
MaxReferenceSaves == 1
MaxContentSize == 3
MaxTicks == 1
MaxStageCalls == 2
MaxUploadSaves == 3

(* ------------------------- program constants --------------------------- *)
\* LoopTerminationAgent: "if iteration_count >= 4"
MAX_ITERATIONS == 4
\* LoopAgent(..., max_iterations=5)
max_iterations == 5

(* --------------------------- Python values ----------------------------- *)
\* None / absent key, for string-valued keys
None == "None"
\* None / absent key, for integer-valued keys
NoneInt == -1
\* a key the session state does not hold, where the code tells it from None
Absent == "Absent"
\* None / absent key, for filename-valued and asset-name-valued keys
NoneName == <<>>

\* Python truthiness of the values state.get() returns
TruthyInt(x) == x # NoneInt /\ x # 0
TruthyStr(x) == x # None /\ x # ""
TruthyName(x) == x # NoneName

(* ------------------------- names and filenames ------------------------- *)
\* An asset name is a sequence of tokens; "_v" is a token of its own so that
\* str.split('_v') can be computed on it.
DEFAULT_ASSET == <<"marketing_post">>
Assets == {DEFAULT_ASSET, <<"promo", "_v", "ip">>}

VersionStr == <<"0", "1", "2", "3", "4", "5", "6", "7", "8", "9">>
\* str(version) inside an f-string
ToStr(n) == VersionStr[n + 1]

\* f"{asset_name}_v{version}.{file_extension}"
create_versioned_filename(asset_name, version) ==
    asset_name \o <<"_v", ToStr(version), ".png">>

(* --------------------------- Python dicts ------------------------------ *)
\* A dict is the sequence of its items [k, v] in insertion order.
DictKeys(d) == {d[i].k : i \in 1..Len(d)}

\* key in d
DictHas(d, key) == key \in DictKeys(d)

\* d.get(key, default)
DictGet(d, key, default) ==
    IF DictHas(d, key)
    THEN d[CHOOSE i \in 1..Len(d) : d[i].k = key].v
    ELSE default

\* d[key] = value
DictSet(d, key, value) ==
    IF DictHas(d, key)
    THEN [i \in 1..Len(d) |-> IF d[i].k = key THEN [k |-> key, v |-> value] ELSE d[i]]
    ELSE Append(d, [k |-> key, v |-> value])

(* ------------------------ structured LLM outputs ----------------------- *)
\* Values the key loop_decision can hold: no value, a LoopDecision object,
\* a dict (with or without should_continue / reason), or some other type.
NoDecision == [type |-> "None", should_continue |-> "absent", reason |-> "absent"]
LoopDecision ==
    {[type |-> "LoopDecision", should_continue |-> sc, reason |-> "stated"] :
        sc \in {"True", "False"}}
DictDecision ==
    {[type |-> "dict", should_continue |-> sc, reason |-> "stated"] :
        sc \in {"True", "False"}}
    \cup {[type |-> "dict", should_continue |-> "absent", reason |-> "absent"]}
StrDecision == {[type |-> "str", should_continue |-> "absent", reason |-> "absent"]}
Decisions == LoopDecision \cup DictDecision \cup StrDecision

\* Verdicts of the review stage: every criterion met, or the request not met.
ContentReview == {"review_all_true", "review_adheres_false"}

\* Output of the prompt capture stage.
CapturedPrompts == {"key requirements"}

VARIABLES
    state,            \* ctx.session.state / tool_context.state
    artifacts,        \* artifact store: filename -> sequence of saved versions
    api_key,          \* the credential variable is in os.environ
    variant,          \* "marketing" or "wardrobe"
    pc,               \* "idle" (root agent) or the stage of deep_think_loop to run next
    times_looped,     \* LoopAgent's pass counter
    tool_result,      \* what the tool call of the running agent turn returned
    event,            \* event LoopTerminationAgent yielded last, until the next pass starts
    context_message,  \* last event text DeepThinkPreparationAgent yielded
    directed,         \* tool the generation instruction selected in this pass
    passes,           \* history: passes started in this invocation
    ended_by,         \* history: what ended the last invocation
    last_review,      \* history: verdict of the latest review, until the next pass starts
    last_saved,       \* history: file the store took in the latest save of this invocation
    saved_this_pass,  \* history: the generation stage of this pass made a save
    ledger_call,      \* latest direct call of a ledger helper and what it returned
    contents,         \* llm_request.contents: per message, the image it carries or None
    clock,            \* int(time.time()), in ticks
    tool_trace,       \* what the latest traced tool call was given and did
    listing,          \* lines the latest list_* tool call returned
    user_content      \* callback_context.user_content.parts

vars == <<state, artifacts, api_key, variant, pc, times_looped, tool_result, event,
          context_message, directed, passes, ended_by, last_review,
          last_saved, saved_this_pass, ledger_call, contents, clock, tool_trace,
          listing, user_content>>

loopVars == <<pc, times_looped, event, context_message, directed, passes,
              ended_by, last_review, last_saved, saved_this_pass>>

toolVars == <<contents, clock, tool_trace, listing, user_content>>

NoEvent == [kind |-> "none", reason |-> "none", final_image |-> NoneName, escalate |-> FALSE]
NoMessage == [iteration |-> 0, original |-> None, review |-> None]
NoCall == [op |-> "none", asset_name |-> NoneName, version |-> NoneInt,
           filename |-> NoneName, returned |-> NoneInt, returned_again |-> NoneInt,
           raised |-> "none"]
NoListing == [header |-> "none", lines |-> <<>>]
NoTrace == [tool |-> "none", asset_name |-> NoneName, artifact_filename |-> NoneName,
            reference_image_filename |-> NoneName, model_called |-> FALSE,
            reference |-> None]

(* ------------------------------ ledger --------------------------------- *)
\* get_next_version_number writing the number it hands out into asset_versions
get_next_version_number_ReservesNumber(s, asset_name) ==
    LET asset_versions == s.asset_versions
        current_version == DictGet(asset_versions, asset_name, 0)
        next_version == current_version + 1
    IN  [state |-> [s EXCEPT !.asset_versions = DictSet(@, asset_name, next_version)],
         returned |-> next_version]

\* get_next_version_number(tool_context, asset_name): the session state the call
\* leaves and the value it returns.  Its statements are two dict.get reads and
\* an addition on locals; none of them assigns into tool_context.state.
get_next_version_number(s, asset_name) ==
    LET asset_versions == s.asset_versions
        current_version == DictGet(asset_versions, asset_name, 0)
        next_version == current_version + 1
    IN  [state |-> s, returned |-> next_version]

\* update_asset_version leaving asset_filenames as it was
update_asset_version_KeepsFilename(s, asset_name, version, filename) ==
    [s EXCEPT !.asset_versions = DictSet(@, asset_name, version),
              !.history = DictSet(@, asset_name,
                                  Append(DictGet(@, asset_name, <<>>),
                                         [version |-> version, filename |-> filename]))]

\* update_asset_version(tool_context, asset_name, version, filename)
update_asset_version(s, asset_name, version, filename) ==
    [s EXCEPT !.asset_versions = DictSet(@, asset_name, version),
              !.asset_filenames = DictSet(@, asset_name, filename),
              !.history = DictSet(@, asset_name,
                                  Append(DictGet(@, asset_name, <<>>),
                                         [version |-> version, filename |-> filename]))]

(* --------------------------- artifact store ---------------------------- *)
\* number of successful saves so far
Saves(store) ==
    LET RECURSIVE Sum(_)
        Sum(F) == IF F = {} THEN 0
                  ELSE LET f == CHOOSE x \in F : TRUE IN Len(store[f]) + Sum(F \ {f})
    IN  Sum(DOMAIN store)

\* save_artifact(filename, artifact): appends a version of the file and returns its
\* number, which is the count of the versions stored under that name before
save_artifact(store, filename, part) ==
    IF filename \in DOMAIN store
    THEN [artifacts |-> [store EXCEPT ![filename] = Append(@, part)],
          version |-> Len(store[filename])]
    ELSE [artifacts |-> (filename :> <<part>>) @@ store,
          version |-> 0]

\* load_artifact answering with an image for a name the store does not hold
load_artifact_AnyName(store, filename) ==
    IF filename \in DOMAIN store
    THEN store[filename][Len(store[filename])]
    ELSE "image"

\* load_artifact(filename): the latest version, or None
load_artifact(store, filename) ==
    IF filename \in DOMAIN store
    THEN store[filename][Len(store[filename])]
    ELSE None

(* ------------------------------- tools --------------------------------- *)
\* What the image-model calls and the store do during one tool call:
\*   model_error  a model call raises
\*   no_image     the stream holds no image-bearing chunk
\*   save_error   the stream holds an image and save_artifact raises
\*   load_error   load_artifact raises (edit_image)
\*   ok           the stream holds an image and save_artifact returns
Outcomes == {"model_error", "no_image", "save_error", "load_error", "ok"}

\* a tool return that also makes the default asset the current one
ToolReturn_SetsCurrentAsset(s, store, text) ==
    [state |-> [s EXCEPT !.current_asset_name = DEFAULT_ASSET],
     artifacts |-> store, result |-> text]

\* Return value of a tool call: the session state and store it leaves, and the
\* text it returns ("ValueError" when it raises instead of returning).
ToolReturn(s, store, text) == [state |-> s, artifacts |-> store, result |-> text]

\* generate_image that saves and records the version but leaves
\* last_generated_image as it was
generate_image_StalePointer(s, store, asset_name, outcome) ==
    IF ~api_key THEN ToolReturn(s, store, "ValueError")
    ELSE IF outcome = "model_error"
    THEN ToolReturn(s, store, IF variant = "marketing" THEN "" ELSE "Error: model")
    ELSE IF outcome = "no_image"
    THEN ToolReturn(s, store, "No image was generated")
    ELSE IF outcome = "save_error"
    THEN ToolReturn(s, store, IF variant = "marketing"
                              THEN "Error saving generated image as artifact"
                              ELSE "Error: save")
    ELSE
        LET next == get_next_version_number(s, asset_name)
            next_version == next.returned
            artifact_filename == create_versioned_filename(asset_name, next_version)
            saved == save_artifact(store, artifact_filename, "image")
            s1 == update_asset_version(next.state, asset_name, saved.version,
                                       artifact_filename)
            s2 == [s1 EXCEPT !.current_asset_name =
                                 IF variant = "marketing" THEN asset_name ELSE @]
        IN  ToolReturn(s2, saved.artifacts,
                       IF variant = "marketing" THEN "Image generated successfully"
                                                ELSE "Faithful reproduction generated")

\* generate_image that records the version before the save is attempted
generate_image_RecordsBeforeSave(s, store, asset_name, outcome) ==
    IF ~api_key THEN ToolReturn(s, store, "ValueError")
    ELSE IF outcome = "model_error"
    THEN ToolReturn(s, store, IF variant = "marketing" THEN "" ELSE "Error: model")
    ELSE IF outcome = "no_image"
    THEN ToolReturn(s, store, "No image was generated")
    ELSE
        LET next == get_next_version_number(s, asset_name)
            next_version == next.returned
            artifact_filename == create_versioned_filename(asset_name, next_version)
            saved == save_artifact(store, artifact_filename, "image")
            s1 == update_asset_version(next.state, asset_name, saved.version,
                                       artifact_filename)
            s2 == [s1 EXCEPT !.last_generated_image = artifact_filename,
                             !.current_asset_name =
                                 IF variant = "marketing" THEN asset_name ELSE @]
        IN  IF outcome = "save_error"
            THEN ToolReturn(s2, store, IF variant = "marketing"
                                       THEN "Error saving generated image as artifact"
                                       ELSE "Error: save")
            ELSE ToolReturn(s2, saved.artifacts,
                            IF variant = "marketing" THEN "Image generated successfully"
                                                     ELSE "Faithful reproduction generated")

\* generate_image(tool_context, inputs): inputs.asset_name = asset_name
generate_image(s, store, asset_name, outcome) ==
    IF ~api_key THEN ToolReturn(s, store, "ValueError")
    ELSE IF outcome = "model_error"
    THEN ToolReturn(s, store, IF variant = "marketing" THEN "" ELSE "Error: model")
    ELSE IF outcome = "no_image"
    THEN ToolReturn(s, store, "No image was generated")
    ELSE IF outcome = "save_error"
    THEN ToolReturn(s, store, IF variant = "marketing"
                              THEN "Error saving generated image as artifact"
                              ELSE "Error: save")
    ELSE
        LET next == get_next_version_number(s, asset_name)
            next_version == next.returned
            artifact_filename == create_versioned_filename(asset_name, next_version)
            saved == save_artifact(store, artifact_filename, "image")
            s1 == update_asset_version(next.state, asset_name, saved.version,
                                       artifact_filename)
            s2 == [s1 EXCEPT !.last_generated_image = artifact_filename,
                             !.current_asset_name =
                                 IF variant = "marketing" THEN asset_name ELSE @]
        IN  ToolReturn(s2, saved.artifacts,
                       IF variant = "marketing" THEN "Image generated successfully"
                                                ELSE "Faithful reproduction generated")

\* '_v' in artifact_filename
HasVersionMark(filename) == \E i \in 1..Len(filename) : filename[i] = "_v"

\* artifact_filename.split('_v')[0]
SplitBaseName(filename) ==
    LET first == CHOOSE i \in 1..Len(filename) :
                    /\ filename[i] = "_v"
                    /\ \A j \in 1..(i - 1) : filename[j] # "_v"
    IN  SubSeq(filename, 1, first - 1)

\* edit_image: the asset the new version is recorded under
EditAssetName(s, artifact_filename, asset_name) ==
    IF TruthyName(asset_name) THEN asset_name
    ELSE IF TruthyName(s.current_asset_name) THEN s.current_asset_name
    ELSE IF HasVersionMark(artifact_filename) THEN SplitBaseName(artifact_filename)
    ELSE DEFAULT_ASSET

\* edit_image(tool_context, inputs): inputs.artifact_filename, inputs.asset_name
edit_image(s, store, artifact_filename, input_asset_name, outcome) ==
    IF ~api_key THEN ToolReturn(s, store, "ValueError")
    ELSE IF outcome = "load_error"
    THEN ToolReturn(s, store, "Error loading image artifact")
    ELSE IF load_artifact(store, artifact_filename) = None
    THEN ToolReturn(s, store, "Could not find image artifact")
    ELSE IF outcome = "model_error"
    THEN ToolReturn(s, store, "")
    ELSE IF outcome = "no_image"
    THEN ToolReturn(s, store, "No edited image was generated")
    ELSE IF outcome = "save_error"
    THEN ToolReturn(s, store, "Error saving edited image as artifact")
    ELSE
        LET asset_name == EditAssetName(s, artifact_filename, input_asset_name)
            next == get_next_version_number(s, asset_name)
            next_version == next.returned
            edited_artifact_filename == create_versioned_filename(asset_name, next_version)
            saved == save_artifact(store, edited_artifact_filename, "image")
            s1 == update_asset_version(next.state, asset_name, saved.version,
                                       edited_artifact_filename)
            s2 == [s1 EXCEPT !.last_generated_image = edited_artifact_filename,
                             !.current_asset_name = asset_name]
        IN  ToolReturn(s2, saved.artifacts, "Image edited successfully")

\* Tool calls an LLM agent can issue: the tool and its inputs.  edit_image is
\* asked for a stored artifact or for a name the store does not hold.
MISSING_FILE == <<"missing", ".png">>
ToolCallsOn(store) ==
    {[tool |-> "generate_image", asset_name |-> a, artifact_filename |-> NoneName] :
        a \in Assets}
    \cup {[tool |-> "edit_image", asset_name |-> a, artifact_filename |-> f] :
        a \in Assets \cup {NoneName}, f \in DOMAIN store \cup {MISSING_FILE}}

ToolCalls == ToolCallsOn(artifacts)

\* the call carried out
CallTool(s, store, call, outcome) ==
    IF call.tool = "generate_image"
    THEN generate_image(s, store, call.asset_name, outcome)
    ELSE edit_image(s, store, call.artifact_filename, call.asset_name, outcome)

\* What can happen during a call; the store accepts a save only while the
\* session is within MaxSaves.
OutcomesOn(store, call) ==
    {o \in Outcomes :
        /\ o = "load_error" => call.tool = "edit_image"
        /\ o = "ok" => Saves(store) < MaxSaves}

OutcomesOf(call) == OutcomesOn(artifacts, call)

\* the file a save added a version to, the store going from `before` to `after`
SavedFile(before, after) ==
    CHOOSE f \in DOMAIN after :
        \/ f \notin DOMAIN before
        \/ Len(after[f]) > Len(before[f])

(* ------------------------- deep_think_loop ----------------------------- *)
\* sub_agents of deep_think_loop, in order
Stages == <<"prepare", "capture", "generate", "review", "decide", "terminate">>

\* LoopAgent runs the sub-agents in list order with every sub-agent skipped after
\* the third
StageAfter_SkipsReview(stage) ==
    LET i == CHOOSE j \in 1..Len(Stages) : Stages[j] = stage
    IN  Stages[IF i = 3 THEN 5 ELSE i + 1]

\* LoopAgent: "for sub_agent in self.sub_agents", the sub-agent run after `stage`
StageAfter(stage) ==
    LET i == CHOOSE j \in 1..Len(Stages) : Stages[j] = stage
    IN  Stages[i + 1]

Init ==
    /\ state = [deep_think_mode |-> None,
                deep_think_iteration |-> NoneInt,
                iteration_count |-> NoneInt,
                previous_feedback |-> None,
                original_deep_think_prompt |-> Absent,
                original_prompt |-> None,
                content_review |-> None,
                loop_decision |-> NoDecision,
                last_generated_image |-> NoneName,
                current_asset_name |-> NoneName,
                asset_versions |-> <<>>,
                asset_filenames |-> <<>>,
                history |-> <<>>,
                reference_images |-> <<>>,
                latest_reference_image |-> NoneName]
    /\ artifacts = <<>>
    /\ api_key \in BOOLEAN
    /\ variant \in {"marketing", "wardrobe"}
    /\ pc = "idle"
    /\ times_looped = 0
    /\ tool_result = "none"
    /\ event = NoEvent
    /\ context_message = NoMessage
    /\ directed = "none"
    /\ passes = 0
    /\ ended_by = "none"
    /\ last_review = None
    /\ last_saved = NoneName
    /\ saved_this_pass = FALSE
    /\ ledger_call = NoCall
    /\ contents = <<>>
    /\ clock = 0
    /\ tool_trace = NoTrace
    /\ listing = NoListing
    /\ user_content = <<>>

\* The root agent, in regular mode, calls generate_image or edit_image; the
\* history of the last loop invocation ends with the new turn.
RegularToolCall ==
    /\ pc = "idle"
    /\ \E call \in ToolCalls : \E outcome \in OutcomesOf(call) :
          LET ret == CallTool(state, artifacts, call, outcome)
          IN  /\ state' = ret.state
              /\ artifacts' = ret.artifacts
              /\ tool_result' = ret.result
    /\ times_looped' = 0
    /\ passes' = 0
    /\ ended_by' = "none"
    /\ event' = NoEvent
    /\ context_message' = NoMessage
    /\ directed' = "none"
    /\ last_review' = None
    /\ last_saved' = NoneName
    /\ saved_this_pass' = FALSE
    /\ UNCHANGED toolVars
    /\ UNCHANGED <<api_key, variant, pc, ledger_call>>

\* The root agent hands the conversation to deep_think_loop: LoopAgent starts
\* with times_looped = 0 at its first sub-agent.
StartLoop ==
    /\ pc = "idle"
    /\ pc' = Stages[1]
    /\ times_looped' = 0
    /\ passes' = 0
    /\ ended_by' = "none"
    /\ event' = NoEvent
    /\ context_message' = NoMessage
    /\ directed' = "none"
    /\ last_review' = None
    /\ last_saved' = NoneName
    /\ saved_this_pass' = FALSE
    /\ tool_result' = "none"
    /\ UNCHANGED toolVars
    /\ UNCHANGED <<state, artifacts, api_key, variant, ledger_call>>

\* DeepThinkPreparationAgent._run_async_impl: the state it leaves
PrepareState(s) ==
    LET s1 == IF ~TruthyInt(s.deep_think_iteration)
              THEN [s EXCEPT !.deep_think_iteration = 0] ELSE s
        s2 == IF ~TruthyInt(s1.iteration_count)
              THEN [s1 EXCEPT !.iteration_count = 0] ELSE s1
        s3 == IF s2.previous_feedback = None \/ s2.previous_feedback = "{}"
              THEN [s2 EXCEPT !.previous_feedback = "{}"] ELSE s2
        iteration_count == s3.deep_think_iteration + 1
    IN  IF iteration_count > 1 THEN s3 ELSE [s3 EXCEPT !.content_review = ""]

\* DeepThinkPreparationAgent._run_async_impl: the context message it yields
PrepareMessage(s) ==
    LET iteration_count == (IF TruthyInt(s.deep_think_iteration)
                            THEN s.deep_think_iteration ELSE 0) + 1
    IN  [iteration |-> iteration_count,
         original |-> IF s.original_deep_think_prompt = Absent
                      THEN "" ELSE s.original_deep_think_prompt,
         review |-> IF iteration_count > 1 /\ TruthyStr(s.content_review)
                    THEN s.content_review ELSE None]

DeepThinkPreparationAgent ==
    /\ pc = "prepare"
    /\ state' = PrepareState(state)
    /\ context_message' = PrepareMessage(state)
    /\ passes' = passes + 1
    /\ saved_this_pass' = FALSE
    /\ event' = NoEvent
    /\ last_review' = None
    /\ pc' = StageAfter("prepare")
    /\ UNCHANGED toolVars
    /\ UNCHANGED <<artifacts, api_key, variant, ledger_call, times_looped, tool_result, directed,
                   ended_by, last_saved>>

\* prompt_capture_agent: output_key = "original_prompt"
PromptCaptureAgent ==
    /\ pc = "capture"
    /\ \E text \in CapturedPrompts : state' = [state EXCEPT !.original_prompt = text]
    /\ pc' = StageAfter("capture")
    /\ UNCHANGED toolVars
    /\ UNCHANGED <<artifacts, api_key, variant, ledger_call, times_looped, tool_result, event,
                   context_message, directed, passes, ended_by, last_review,
                   last_saved, saved_this_pass>>

\* content_generation_agent's instruction: "if deep_think_iteration:
\* {deep_think_iteration} is 1, call the generate_image tool, else call the
\* edit_image tool"
Directive(s) == IF s.deep_think_iteration = 1 THEN "generate_image" ELSE "edit_image"

\* a turn of content_generation_agent after one more tool call
AfterCall(run, call, outcome) ==
    LET ret == CallTool(run.state, run.artifacts, call, outcome)
        saved == ret.artifacts # run.artifacts
    IN  [state |-> ret.state,
         artifacts |-> ret.artifacts,
         result |-> ret.result,
         last_saved |-> IF saved THEN SavedFile(run.artifacts, ret.artifacts)
                        ELSE run.last_saved,
         saved_this_pass |-> run.saved_this_pass \/ saved]

\* what the next tool call of a turn starts from: the session and the store
\* the earlier calls left, whatever text they returned
Standing(runs) ==
    {[run EXCEPT !.result = "none"] : run \in {r \in runs : r.result # "ValueError"}}

\* the turns of content_generation_agent that make at most n tool calls: the
\* LLM answers, or calls a tool and goes on; a tool that raises ends the turn
RECURSIVE StageRuns(_, _)
StageRuns(run, n) ==
    IF n = 0 THEN {run}
    ELSE LET before == StageRuns(run, n - 1)
         IN  before \cup
             UNION {UNION {{AfterCall(from, call, outcome) :
                               outcome \in OutcomesOn(from.artifacts, call)} :
                              call \in ToolCallsOn(from.artifacts)} :
                       from \in Standing(before)}

\* content_generation_agent: the LLM is given the directive and answers after
\* up to MaxStageCalls tool calls; an exception raised by a tool ends the
\* invocation.
ContentGenAgent ==
    /\ pc = "generate"
    /\ directed' = Directive(state)
    /\ \E run \in StageRuns([state |-> state, artifacts |-> artifacts,
                              result |-> "none", last_saved |-> last_saved,
                              saved_this_pass |-> FALSE], MaxStageCalls) :
          /\ state' = run.state
          /\ artifacts' = run.artifacts
          /\ tool_result' = run.result
          /\ last_saved' = run.last_saved
          /\ saved_this_pass' = run.saved_this_pass
          /\ pc' = IF run.result = "ValueError" THEN "idle" ELSE StageAfter("generate")
          /\ ended_by' = IF run.result = "ValueError" THEN "exception" ELSE ended_by
    /\ UNCHANGED toolVars
    /\ UNCHANGED <<api_key, variant, ledger_call, times_looped, event, context_message,
                   passes, last_review>>

\* content_review_agent: output_schema = ContentReview, output_key = "content_review"
ContentReviewAgent ==
    /\ pc = "review"
    /\ \E verdict \in ContentReview :
          /\ state' = [state EXCEPT !.content_review = verdict]
          /\ last_review' = verdict
    /\ tool_result' = "none"
    /\ pc' = StageAfter("review")
    /\ UNCHANGED toolVars
    /\ UNCHANGED <<artifacts, api_key, variant, ledger_call, times_looped, event,
                   context_message, directed, passes, ended_by, last_saved,
                   saved_this_pass>>

\* loop_control_agent: output_key = "loop_decision"; the key keeps its value when
\* the stage yields no final response.
LoopControlAgent ==
    /\ pc = "decide"
    /\ \/ \E decision \in Decisions : state' = [state EXCEPT !.loop_decision = decision]
       \/ UNCHANGED state
    /\ pc' = StageAfter("decide")
    /\ UNCHANGED toolVars
    /\ UNCHANGED <<artifacts, api_key, variant, ledger_call, times_looped, tool_result, event,
                   context_message, directed, passes, ended_by, last_review,
                   last_saved, saved_this_pass>>

\* the verdict with the cap tested as iteration_count > 4
TerminationVerdict_CapOff(s) ==
    LET loop_decision == s.loop_decision
        iteration_count == IF s.deep_think_iteration = NoneInt THEN 0
                           ELSE s.deep_think_iteration
        decided ==
            IF loop_decision.type = "LoopDecision"
            THEN [should_continue |-> loop_decision.should_continue = "True",
                  reason |-> loop_decision.reason]
            ELSE IF loop_decision.type = "dict"
            THEN [should_continue |-> loop_decision.should_continue # "False",
                  reason |-> IF loop_decision.reason = "absent" THEN "No reason provided"
                             ELSE loop_decision.reason]
            ELSE [should_continue |-> TRUE, reason |-> "No decision found"]
    IN  IF iteration_count > MAX_ITERATIONS
        THEN [should_continue |-> FALSE, reason |-> "Maximum iterations reached"]
        ELSE decided

\* the verdict with only LoopDecision objects honoured, a dict taken as no decision
TerminationVerdict_DictIgnored(s) ==
    LET loop_decision == s.loop_decision
        iteration_count == IF s.deep_think_iteration = NoneInt THEN 0
                           ELSE s.deep_think_iteration
        decided ==
            IF loop_decision.type = "LoopDecision"
            THEN [should_continue |-> loop_decision.should_continue = "True",
                  reason |-> loop_decision.reason]
            ELSE [should_continue |-> TRUE, reason |-> "No decision found"]
    IN  IF iteration_count >= MAX_ITERATIONS
        THEN [should_continue |-> FALSE, reason |-> "Maximum iterations reached"]
        ELSE decided

\* LoopTerminationAgent._run_async_impl, lines 119-135: should_continue and reason
TerminationVerdict(s) ==
    LET loop_decision == s.loop_decision
        iteration_count == IF s.deep_think_iteration = NoneInt THEN 0
                           ELSE s.deep_think_iteration
        decided ==
            IF loop_decision.type = "LoopDecision"
            THEN [should_continue |-> loop_decision.should_continue = "True",
                  reason |-> loop_decision.reason]
            ELSE IF loop_decision.type = "dict"
            THEN [should_continue |-> loop_decision.should_continue # "False",
                  reason |-> IF loop_decision.reason = "absent" THEN "No reason provided"
                             ELSE loop_decision.reason]
            ELSE [should_continue |-> TRUE, reason |-> "No decision found"]
    IN  IF iteration_count >= MAX_ITERATIONS
        THEN [should_continue |-> FALSE, reason |-> "Maximum iterations reached"]
        ELSE decided

\* LoopTerminationAgent._run_async_impl, lines 137-158: the event it yields
TerminationEvent(s) ==
    LET verdict == TerminationVerdict(s)
    IN  IF verdict.should_continue
        THEN [kind |-> "continue", reason |-> verdict.reason,
              final_image |-> NoneName, escalate |-> FALSE]
        ELSE [kind |-> "terminal", reason |-> verdict.reason,
              final_image |-> s.last_generated_image, escalate |-> TRUE]

\* a state_delta that also drops the pointer to the latest image
TerminationState_ClearsPointer(s) ==
    IF TerminationVerdict(s).should_continue THEN s
    ELSE [s EXCEPT !.deep_think_mode = "False",
                   !.deep_think_iteration = 0,
                   !.original_deep_think_prompt = None,
                   !.content_review = None,
                   !.loop_decision = NoDecision,
                   !.last_generated_image = NoneName]

\* the state_delta of that event
TerminationState(s) ==
    IF TerminationVerdict(s).should_continue THEN s
    ELSE [s EXCEPT !.deep_think_mode = "False",
                   !.deep_think_iteration = 0,
                   !.original_deep_think_prompt = None,
                   !.content_review = None,
                   !.loop_decision = NoDecision]

\* the loop wrapper letting one pass more through
LoopGoesOn_OneMore(looped) == looped < max_iterations + 1

\* LoopAgent: the loop goes on after a pass that no sub-agent escalated
LoopGoesOn(looped) == looped < max_iterations

\* LoopTerminationAgent, last sub-agent of the pass, and LoopAgent's step after
\* it: return on escalate, else count the pass and start the next one while
\* times_looped < max_iterations.
LoopTerminationAgent ==
    /\ pc = "terminate"
    /\ event' = TerminationEvent(state)
    /\ state' = TerminationState(state)
    /\ IF event'.escalate
       THEN /\ pc' = "idle"
            /\ ended_by' = "escalate"
            /\ UNCHANGED times_looped
       ELSE /\ times_looped' = times_looped + 1
            /\ pc' = IF LoopGoesOn(times_looped + 1) THEN Stages[1] ELSE "idle"
            /\ ended_by' = IF LoopGoesOn(times_looped + 1) THEN ended_by
                           ELSE "max_iterations"
    /\ UNCHANGED toolVars
    /\ UNCHANGED <<artifacts, api_key, variant, ledger_call, tool_result, context_message, directed,
                   passes, last_review, last_saved, saved_this_pass>>

\* the stages of deep_think_loop
LoopStep ==
    \/ DeepThinkPreparationAgent
    \/ PromptCaptureAgent
    \/ ContentGenAgent
    \/ ContentReviewAgent
    \/ LoopControlAgent
    \/ LoopTerminationAgent

Next ==
    \/ RegularToolCall
    \/ StartLoop
    \/ LoopStep

Spec == Init /\ [][Next]_vars

\* Every stage of a running loop completes: model and store calls block and
\* return. ContentGenAgent is enabled exactly when pc = "generate" and every
\* step of it leaves that stage, so its weak fairness is written on pc.
FairSpec ==
    /\ Spec
    /\ WF_vars(pc # "generate" /\ LoopStep)
    /\ []<>(pc # "generate")

TypeOK ==
    /\ pc \in {"idle"} \cup {Stages[i] : i \in 1..Len(Stages)}
    /\ times_looped \in 0..max_iterations
    /\ passes \in 0..max_iterations
    /\ state.loop_decision \in Decisions \cup {NoDecision}
    /\ state.content_review \in ContentReview \cup {None, ""}
    /\ Saves(artifacts) <= MaxSaves

(* ----------------- LoopTerminationAgent on any input ------------------- *)
\* LoopTerminationAgent run once on a session state drawn from every shape of
\* loop_decision and every counter value up to MaxIterationInput, inside a pass
\* of a running loop.
\* the file the first upload of a marketing session is stored under
UPLOADED_REFERENCE == <<"reference_image", "_v", "1", ".png">>

TermInit ==
    /\ \E iteration \in {NoneInt} \cup 0..MaxIterationInput :
       \E decision \in Decisions \cup {NoDecision} :
       \E verdict \in ContentReview :
       \E image \in {NoneName, create_versioned_filename(DEFAULT_ASSET, 1)} :
       \E reference \in {NoneName, UPLOADED_REFERENCE} :
          /\ state = [deep_think_mode |-> None,
                      deep_think_iteration |-> iteration,
                      iteration_count |-> 0,
                      previous_feedback |-> "{}",
                      original_deep_think_prompt |-> Absent,
                      original_prompt |-> "key requirements",
                      content_review |-> verdict,
                      loop_decision |-> decision,
                      last_generated_image |-> image,
                      current_asset_name |-> IF image = NoneName THEN NoneName
                                             ELSE DEFAULT_ASSET,
                      asset_versions |-> IF image = NoneName THEN <<>>
                                         ELSE <<[k |-> DEFAULT_ASSET, v |-> 0]>>,
                      asset_filenames |-> IF image = NoneName THEN <<>>
                                          ELSE <<[k |-> DEFAULT_ASSET, v |-> image]>>,
                      history |-> IF image = NoneName THEN <<>>
                                  ELSE <<[k |-> DEFAULT_ASSET,
                                          v |-> <<[version |-> 0, filename |-> image]>>]>>,
                      reference_images |->
                          IF reference = NoneName THEN <<>>
                          ELSE <<[k |-> reference,
                                  v |-> [version |-> 1, uploaded_version |-> 0]]>>,
                      latest_reference_image |-> reference]
          /\ artifacts =
                LET generated == IF image = NoneName THEN <<>>
                                 ELSE (image :> <<"image">>)
                IN  IF reference = NoneName THEN generated
                    ELSE (reference :> <<"img_a">>) @@ generated
          /\ last_review = verdict
    /\ api_key = TRUE
    /\ variant = "marketing"
    /\ pc = "terminate"
    /\ times_looped \in 0..(max_iterations - 1)
    /\ passes = times_looped + 1
    /\ tool_result = "none"
    /\ event = NoEvent
    /\ context_message = NoMessage
    /\ directed = "edit_image"
    /\ ended_by = "none"
    /\ last_saved = NoneName
    /\ saved_this_pass = FALSE
    /\ ledger_call = NoCall
    /\ contents = <<>>
    /\ clock = 0
    /\ tool_trace = NoTrace
    /\ listing = NoListing
    /\ user_content = <<>>

TermNext == LoopTerminationAgent

TermSpec == TermInit /\ [][TermNext]_vars

(* ------------------- ledger helpers on any input ----------------------- *)
\* get_next_version_number and update_asset_version called directly, with any
\* asset and any version number up to MaxVersionInput, on the ledger the calls
\* before have left.
LedgerInit ==
    /\ Init
    /\ api_key = TRUE

\* number of history entries in the ledger
LedgerEntries(s) ==
    LET RECURSIVE Sum(_)
        Sum(i) == IF i = 0 THEN 0 ELSE Len(s.history[i].v) + Sum(i - 1)
    IN  Sum(Len(s.history))

\* get_next_version_number(tool_context, asset_name), called twice in a row: the
\* second call runs on the session state the first one left, and the session
\* state afterwards is the one the second call left.
GetNextVersionCall ==
    /\ \E asset_name \in Assets :
          LET first == get_next_version_number(state, asset_name)
              second == get_next_version_number(first.state, asset_name)
          IN  /\ state' = second.state
              /\ ledger_call' = [op |-> "get_next_version_number",
                                  asset_name |-> asset_name,
                                  version |-> NoneInt,
                                  filename |-> NoneName,
                                  returned |-> first.returned,
                                  returned_again |-> second.returned,
                                  raised |-> "none"]
    /\ UNCHANGED <<artifacts, api_key, variant>>
    /\ UNCHANGED loopVars
    /\ UNCHANGED tool_result
    /\ UNCHANGED toolVars

\* update_asset_version(tool_context, asset_name, version, filename): it has no
\* raise statement and returns None
UpdateAssetVersionCall ==
    /\ LedgerEntries(state) < MaxLedgerUpdates
    /\ \E asset_name \in Assets : \E version \in 0..MaxVersionInput :
          LET filename == create_versioned_filename(asset_name, version)
          IN  /\ state' = update_asset_version(state, asset_name, version, filename)
              /\ ledger_call' = [op |-> "update_asset_version",
                                  asset_name |-> asset_name,
                                  version |-> version,
                                  filename |-> filename,
                                  returned |-> NoneInt,
                                  returned_again |-> NoneInt,
                                  raised |-> "none"]
    /\ UNCHANGED <<artifacts, api_key, variant>>
    /\ UNCHANGED loopVars
    /\ UNCHANGED tool_result
    /\ UNCHANGED toolVars

\* get_asset_versions_info reporting the current version as the count
get_asset_versions_info_CountsByVersion(s) ==
    IF s.asset_versions = <<>>
    THEN [header |-> "No marketing assets have been created yet.", lines |-> <<>>]
    ELSE [header |-> "Current marketing assets:",
          lines |-> [i \in 1..Len(s.asset_versions) |->
                        LET asset_name == s.asset_versions[i].k
                            current_version == s.asset_versions[i].v
                        IN  [asset_name |-> asset_name,
                             total_versions |-> current_version,
                             current_version |-> current_version,
                             latest_filename |->
                                 DictGet(s.asset_filenames, asset_name, <<"Unknown">>)]]]

\* get_asset_versions_info(tool_context): the header line and one line per
\* entry of asset_versions, in the dict's order
get_asset_versions_info(s) ==
    IF s.asset_versions = <<>>
    THEN [header |-> "No marketing assets have been created yet.", lines |-> <<>>]
    ELSE [header |-> "Current marketing assets:",
          lines |-> [i \in 1..Len(s.asset_versions) |->
                        LET asset_name == s.asset_versions[i].k
                            current_version == s.asset_versions[i].v
                            asset_history == DictGet(s.history, asset_name, <<>>)
                        IN  [asset_name |-> asset_name,
                             total_versions |-> Len(asset_history),
                             current_version |-> current_version,
                             latest_filename |->
                                 DictGet(s.asset_filenames, asset_name, <<"Unknown">>)]]]

\* list_asset_versions(tool_context)
ListAssetVersions ==
    /\ listing' = get_asset_versions_info(state)
    /\ UNCHANGED <<state, artifacts, api_key, variant, tool_result, ledger_call,
                   contents, clock, tool_trace, user_content>>
    /\ UNCHANGED loopVars

LedgerNext ==
    \/ GetNextVersionCall
    \/ UpdateAssetVersionCall
    \/ ListAssetVersions

LedgerSpec == LedgerInit /\ [][LedgerNext]_vars

(* ---------------- reference images and traced tool calls --------------- *)
\* image contents a user uploads
Images == {"img_a", "img_b"}

\* an image other than img_a whose md5 digest starts with the same 8 hex digits
COLLIDING_IMAGE == "img_c"

\* the images a request can carry
UploadedImages == Images \cup {COLLIDING_IMAGE}

\* the images requests are drawn from: the marketing callback computes no
\* digest, so the colliding image is sent to the wardrobe agent only
RequestImages == IF variant = "wardrobe" THEN UploadedImages ELSE Images

\* hashlib.md5(part.inline_data.data).hexdigest()[:8]
image_hash(image) ==
    IF image \in {"img_a", COLLIDING_IMAGE} THEN "a140bd00" ELSE "30bea99c"

\* reference_image_filename = 'latest'
LATEST == <<"latest">>

\* a reference filename the store does not hold
MISSING_REFERENCE == <<"missing_reference", ".png">>

\* every upload stored under the one name reference_image_v1.png
marketing_reference_filename_Fixed(ref_count) ==
    <<"reference_image", "_v", ToStr(1), ".png">>

\* process_reference_images_callback: f"reference_image_v{ref_count}.png"
marketing_reference_filename(ref_count) ==
    <<"reference_image", "_v", ToStr(ref_count), ".png">>

\* auto_store_reference_images: f"reference_{image_hash}_{int(time.time())}.jpg"
wardrobe_reference_filename(image, t) ==
    <<"reference_", image_hash(image), "_", ToStr(t), ".jpg">>

\* process_reference_images_callback(callback_context, llm_request): `message`
\* is the image of llm_request.contents[-1] or None, save_ok tells whether
\* save_artifact returns
process_reference_images_callback(s, store, message, save_ok) ==
    IF message = None THEN [state |-> s, artifacts |-> store]
    ELSE
        LET ref_count == Len(s.reference_images) + 1
            filename == marketing_reference_filename(ref_count)
            saved == save_artifact(store, filename, message)
        IN  IF ~save_ok THEN [state |-> s, artifacts |-> store]
            ELSE [state |-> [s EXCEPT !.reference_images =
                                          DictSet(@, filename,
                                                  [version |-> ref_count,
                                                   uploaded_version |-> saved.version]),
                                      !.latest_reference_image = filename],
                  artifacts |-> saved.artifacts]

\* auto_store_reference_images(callback_context, llm_request): every image of
\* every message is saved again; t[i] is int(time.time()) read for the image
\* of message i, `fails` are the messages whose save raises
RECURSIVE auto_store_from(_, _, _, _, _, _)
auto_store_from(s, store, messages, i, t, fails) ==
    IF i > Len(messages) THEN [state |-> s, artifacts |-> store]
    ELSE IF messages[i] = None \/ i \in fails
    THEN auto_store_from(s, store, messages, i + 1, t, fails)
    ELSE
        LET filename == wardrobe_reference_filename(messages[i], t[i])
            saved == save_artifact(store, filename, messages[i])
        IN  auto_store_from([s EXCEPT !.latest_reference_image = filename],
                            saved.artifacts, messages, i + 1, t, fails)

auto_store_reference_images(s, store, messages, t, fails) ==
    auto_store_from(s, store, messages, 1, t, fails)

\* the clock readings of one callback run: one per image-bearing message
\* (a message without image keeps the reading before it), never going back,
\* the clock advancing by at most one tick during the run and by at most
\* MaxTicks in a session
ClockReadings(messages) ==
    {t \in [1..Len(messages) -> {clock} \cup {c \in {clock + 1} : c <= MaxTicks}] :
        \A i \in 1..Len(messages) :
            LET before == IF i = 1 THEN clock ELSE t[i - 1]
            IN  /\ before <= t[i]
                /\ messages[i] = None => t[i] = before}

\* stored files that are reference images
ReferenceFiles(store) ==
    {f \in DOMAIN store : f[1] \in {"reference_image", "reference_"}}

\* number of reference image versions the store holds
ReferenceSaves(store) ==
    LET RECURSIVE Sum(_)
        Sum(F) == IF F = {} THEN 0
                  ELSE LET f == CHOOSE x \in F : TRUE IN Len(store[f]) + Sum(F \ {f})
    IN  Sum(ReferenceFiles(store))

\* before_model_callback of the root agent, run on a request whose latest
\* message carries an image or none; the store accepts reference images while
\* it holds at most MaxUploadSaves of them
BeforeModelCallback ==
    /\ pc = "idle"
    /\ Len(contents) < MaxMessages
    /\ \E message \in RequestImages \cup {None} :
          LET messages == Append(contents, message)
          IN  /\ contents' = messages
              /\ IF variant = "marketing"
                 THEN \E save_ok \in BOOLEAN :
                         LET ret == process_reference_images_callback(
                                        state, artifacts, message, save_ok)
                         IN  /\ ReferenceSaves(ret.artifacts) <= MaxUploadSaves
                             /\ state' = ret.state
                             /\ artifacts' = ret.artifacts
                             /\ clock' = clock
                 ELSE \E t \in ClockReadings(messages) :
                      \E fails \in SUBSET {i \in 1..Len(messages) : messages[i] # None} :
                         LET ret == auto_store_reference_images(
                                        state, artifacts, messages, t, fails)
                         IN  /\ ReferenceSaves(ret.artifacts) <= MaxUploadSaves
                             /\ state' = ret.state
                             /\ artifacts' = ret.artifacts
                             /\ clock' = t[Len(messages)]
    /\ tool_result' = "none"
    /\ tool_trace' = NoTrace
    /\ listing' = NoListing
    /\ UNCHANGED <<api_key, variant, ledger_call, user_content>>
    /\ UNCHANGED loopVars

\* generate_image / edit_image: the filename the reference image is loaded from
ResolveReference(s, tool, reference_image_filename) ==
    IF variant = "wardrobe" /\ tool = "generate_image"
    THEN IF reference_image_filename = LATEST \/ ~TruthyName(reference_image_filename)
         THEN s.latest_reference_image
         ELSE reference_image_filename
    ELSE IF ~TruthyName(reference_image_filename) THEN NoneName
    ELSE IF reference_image_filename = LATEST THEN s.latest_reference_image
    ELSE reference_image_filename

\* generate_image / edit_image: reference_image_part
ReferencePart(s, store, tool, reference_image_filename) ==
    LET ref_filename == ResolveReference(s, tool, reference_image_filename)
    IN  IF TruthyName(ref_filename) THEN load_artifact(store, ref_filename) ELSE None

\* the call reaches the image model whether or not the credential is set
ModelCalled_IgnoresKey(store, call, outcome) ==
    call.tool = "edit_image" =>
        /\ outcome # "load_error"
        /\ load_artifact(store, call.artifact_filename) # None

\* the call reaches a call of the image model
ModelCalled(store, call, outcome) ==
    /\ api_key
    /\ call.tool = "edit_image" =>
          /\ outcome # "load_error"
          /\ load_artifact(store, call.artifact_filename) # None

\* The root agent calls generate_image or edit_image; the trace keeps what the
\* call was given, whether it reached the image model and with which reference
\* image.
TracedCall(call, outcome) ==
    LET ret == CallTool(state, artifacts, call, outcome)
        called == ModelCalled(artifacts, call, outcome)
    IN  /\ state' = ret.state
        /\ artifacts' = ret.artifacts
        /\ tool_result' = ret.result
        /\ tool_trace' =
              [tool |-> call.tool,
               asset_name |-> call.asset_name,
               artifact_filename |-> call.artifact_filename,
               reference_image_filename |-> call.reference_image_filename,
               model_called |-> called,
               reference |-> IF called
                             THEN ReferencePart(state, artifacts, call.tool,
                                                call.reference_image_filename)
                             ELSE None]
        /\ listing' = NoListing
        /\ UNCHANGED <<api_key, variant, ledger_call, contents, clock, user_content>>
        /\ UNCHANGED loopVars

\* the tool calls of ToolCalls, made without a reference image
PlainCalls ==
    {[tool |-> c.tool, asset_name |-> c.asset_name,
      artifact_filename |-> c.artifact_filename,
      reference_image_filename |-> NoneName] : c \in ToolCalls}

\* generate_image / edit_image called without reference image, on any input
\* and with any outcome
DirectToolCall ==
    /\ pc = "idle"
    /\ \E call \in PlainCalls : \E outcome \in OutcomesOf(call) :
          TracedCall(call, outcome)

ToolNext == DirectToolCall

\* The root agent in regular mode: tool calls on a session without uploads.
ToolSpec == Init /\ [][ToolNext]_vars

\* tool calls that name a reference image: by filename, by 'latest', by a name
\* the store does not hold, or not at all; edit_image is asked for any stored
\* file, with every kind of reference for a generated file and without
\* reference for an uploaded one
ReferenceCalls ==
    LET references == {NoneName, LATEST, MISSING_REFERENCE}
                         \cup ReferenceFiles(artifacts)
    IN  {[tool |-> "generate_image", asset_name |-> DEFAULT_ASSET,
          artifact_filename |-> NoneName, reference_image_filename |-> r] :
            r \in references}
        \cup {call \in {[tool |-> "edit_image", asset_name |-> NoneName,
                         artifact_filename |-> f, reference_image_filename |-> r] :
                            f \in DOMAIN artifacts, r \in references} :
                 call.artifact_filename \in ReferenceFiles(artifacts)
                    => call.reference_image_filename = NoneName}

\* What can happen during a call that names a reference; the store accepts
\* the save of a produced image only while the ledger is within
\* MaxReferenceSaves entries.
ReferenceOutcomes(call) ==
    {o \in Outcomes :
        /\ o = "load_error" => call.tool = "edit_image"
        /\ o = "ok" => LedgerEntries(state) < MaxReferenceSaves}

\* generate_image / edit_image called with a reference_image_filename
ReferenceToolCall ==
    /\ pc = "idle"
    /\ \E call \in ReferenceCalls : \E outcome \in ReferenceOutcomes(call) :
          TracedCall(call, outcome)

\* get_reference_images_info(tool_context)
get_reference_images_info(s) ==
    IF s.reference_images = <<>>
    THEN [header |-> "No reference images have been uploaded yet.", lines |-> <<>>]
    ELSE [header |-> "Available reference images:",
          lines |-> [i \in 1..Len(s.reference_images) |->
                        [filename |-> s.reference_images[i].k,
                         version |-> s.reference_images[i].v.version]]]

\* list_reference_images(tool_context)
ListReferenceImages ==
    /\ pc = "idle"
    /\ listing' = get_reference_images_info(state)
    /\ tool_result' = "none"
    /\ tool_trace' = NoTrace
    /\ UNCHANGED <<state, artifacts, api_key, variant, ledger_call, contents, clock,
                   user_content>>
    /\ UNCHANGED loopVars

RefInit ==
    /\ Init
    /\ api_key = TRUE

RefNext ==
    \/ BeforeModelCallback
    \/ ReferenceToolCall
    \/ ListReferenceImages

\* The root agent in regular mode with uploads: the callback storing reference
\* images, tool calls that name one, and the listing.
RefSpec == RefInit /\ [][RefNext]_vars

MarketingRefInit ==
    /\ RefInit
    /\ variant = "marketing"

\* The same for the marketing agent alone (src/agent.py).
MarketingRefSpec == MarketingRefInit /\ [][RefNext]_vars

RefTypeOK ==
    /\ pc = "idle"
    /\ Len(contents) <= MaxMessages
    /\ clock \in 0..MaxTicks
    /\ ReferenceSaves(artifacts) <= MaxUploadSaves + MaxReferenceSaves
    /\ LedgerEntries(state) <= MaxReferenceSaves
    /\ state.latest_reference_image \in {NoneName} \cup DOMAIN artifacts

(* ------------------- detect_deep_think_callback ------------------------ *)
\* Text is a sequence of tokens: the two words of the phrase in three letter
\* casings, a blank and another word. A part carries text or an image.
SPACE == " "
DeepWords == {"deep", "Deep", "DEEP"}
ThinkWords == {"think", "Think", "THINK"}
Tokens == DeepWords \cup ThinkWords \cup {SPACE, "poster"}

\* str.lower() of one token
Lower(token) ==
    IF token \in DeepWords THEN "deep"
    ELSE IF token \in ThinkWords THEN "think"
    ELSE token

TextPart(text) == [text |-> text, inline_data |-> None]
ImagePart(image) == [text |-> <<>>, inline_data |-> image]

\* `if part.text`
TruthyText(part) == part.text # <<>>

\* what a message is made of: tokens of text and images
Atoms == Tokens \cup Images

\* user_content.parts made of the given atoms: an image is a part of its own,
\* a token continues the text part before it unless a cut starts a new one
RECURSIVE Assemble(_, _, _, _)
Assemble(atoms, cuts, i, parts) ==
    IF i > Len(atoms) THEN parts
    ELSE LET atom == atoms[i]
         IN  IF atom \in Images
             THEN Assemble(atoms, cuts, i + 1, Append(parts, ImagePart(atom)))
             ELSE IF parts # <<>> /\ TruthyText(parts[Len(parts)]) /\ ~cuts[i]
             THEN Assemble(atoms, cuts, i + 1,
                           [parts EXCEPT ![Len(parts)].text = Append(@, atom)])
             ELSE Assemble(atoms, cuts, i + 1, Append(parts, TextPart(<<atom>>)))

\* user_text: every text part followed by a blank
RECURSIVE ExtractText(_)
ExtractText(parts) ==
    IF parts = <<>> THEN <<>>
    ELSE (IF TruthyText(Head(parts)) THEN Head(parts).text \o <<SPACE>> ELSE <<>>)
            \o ExtractText(Tail(parts))

\* str.strip()
RECURSIVE LStrip(_)
LStrip(text) ==
    IF text # <<>> /\ Head(text) = SPACE THEN LStrip(Tail(text)) ELSE text

RECURSIVE RStrip(_)
RStrip(text) ==
    IF text # <<>> /\ text[Len(text)] = SPACE
    THEN RStrip(SubSeq(text, 1, Len(text) - 1))
    ELSE text

Strip(text) == LStrip(RStrip(text))

\* the phrase looked for without lowering the text
ContainsDeepThink_CaseSensitive(text) ==
    \E i \in 1..(Len(text) - 2) :
        /\ text[i] = "deep"
        /\ text[i + 1] = SPACE
        /\ text[i + 2] = "think"

\* `"deep think" in user_text.lower()`
ContainsDeepThink(text) ==
    \E i \in 1..(Len(text) - 2) :
        /\ Lower(text[i]) = "deep"
        /\ text[i + 1] = SPACE
        /\ Lower(text[i + 2]) = "think"

\* str.replace(old, ""): occurrences found left to right, not overlapping
RECURSIVE Remove(_, _)
Remove(text, old) ==
    IF Len(text) < Len(old) THEN text
    ELSE IF SubSeq(text, 1, Len(old)) = old
    THEN Remove(SubSeq(text, Len(old) + 1, Len(text)), old)
    ELSE <<Head(text)>> \o Remove(Tail(text), old)

\* " ".join(cleaned_text.split())
RECURSIVE CollapseSpaces(_)
CollapseSpaces(text) ==
    IF Len(text) < 2 THEN text
    ELSE IF text[1] = SPACE /\ text[2] = SPACE THEN CollapseSpaces(Tail(text))
    ELSE <<Head(text)>> \o CollapseSpaces(Tail(text))

JoinSplit(text) == Strip(CollapseSpaces(text))

\* cleaned_text
CleanText(user_text) ==
    JoinSplit(Remove(Remove(Remove(user_text, <<"deep", SPACE, "think">>),
                            <<"Deep", SPACE, "Think">>),
                     <<"DEEP", SPACE, "THINK">>))

\* cleaned_parts: a text part is replaced by the cleaned text while
\* cleaned_parts is still empty and dropped otherwise, other parts are kept
RECURSIVE CleanParts(_, _, _)
CleanParts(parts, cleaned_parts, cleaned_text) ==
    IF parts = <<>> THEN cleaned_parts
    ELSE LET part == Head(parts)
         IN  CleanParts(Tail(parts),
                        IF TruthyText(part)
                        THEN IF cleaned_parts = <<>>
                             THEN <<TextPart(cleaned_text)>>
                             ELSE cleaned_parts
                        ELSE Append(cleaned_parts, part),
                        cleaned_text)

\* detect_deep_think_callback(callback_context): the state and the
\* user_content.parts it leaves
detect_deep_think_callback(s, parts) ==
    LET user_text == ExtractText(parts)
    IN  IF parts = <<>> \/ Strip(user_text) = <<>>
        THEN [state |-> [s EXCEPT !.deep_think_mode = "False"], parts |-> parts]
        ELSE IF ContainsDeepThink(user_text)
        THEN [state |-> [s EXCEPT !.deep_think_mode = "True",
                                  !.original_deep_think_prompt = Strip(user_text)],
              parts |-> CleanParts(parts, <<>>, CleanText(user_text))]
        ELSE [state |-> [s EXCEPT !.deep_think_mode = "False"], parts |-> parts]

\* the callback is about to run on a user message of at most MaxContentSize
\* tokens and images (<<>> is a message without parts, or no user content),
\* whatever deep_think_mode was left before
DetectInit ==
    /\ \E mode \in {None, "False", "True"} :
          state = [deep_think_mode |-> mode,
                   deep_think_iteration |-> NoneInt,
                   iteration_count |-> NoneInt,
                   previous_feedback |-> None,
                   original_deep_think_prompt |-> Absent,
                   original_prompt |-> None,
                   content_review |-> None,
                   loop_decision |-> NoDecision,
                   last_generated_image |-> NoneName,
                   current_asset_name |-> NoneName,
                   asset_versions |-> <<>>,
                   asset_filenames |-> <<>>,
                   history |-> <<>>,
                   reference_images |-> <<>>,
                   latest_reference_image |-> NoneName]
    /\ \E size \in 0..MaxContentSize :
       \E atoms \in [1..size -> Atoms] :
       \E cuts \in [1..size -> BOOLEAN] :
          user_content = Assemble(atoms, cuts, 1, <<>>)
    /\ artifacts = <<>>
    /\ api_key = TRUE
    /\ variant = "marketing"
    /\ pc = "before_agent"
    /\ times_looped = 0
    /\ tool_result = "none"
    /\ event = NoEvent
    /\ context_message = NoMessage
    /\ directed = "none"
    /\ passes = 0
    /\ ended_by = "none"
    /\ last_review = None
    /\ last_saved = NoneName
    /\ saved_this_pass = FALSE
    /\ ledger_call = NoCall
    /\ contents = <<>>
    /\ clock = 0
    /\ tool_trace = NoTrace
    /\ listing = NoListing

\* detect_deep_think_callback run as before_agent_callback
DetectDeepThink ==
    /\ pc = "before_agent"
    /\ LET ret == detect_deep_think_callback(state, user_content)
       IN  /\ state' = ret.state
           /\ user_content' = ret.parts
    /\ pc' = "idle"
    /\ UNCHANGED <<artifacts, api_key, variant, times_looped, tool_result, event,
                   context_message, directed, passes, ended_by, last_review,
                   last_saved, saved_this_pass, ledger_call, contents, clock,
                   tool_trace, listing>>

DetectNext == DetectDeepThink

DetectSpec == DetectInit /\ [][DetectNext]_vars

(* ------------------------------ claims --------------------------------- *)
\* a loop invocation has run to its end without an exception
LoopEnded == pc = "idle" /\ ended_by \in {"escalate", "max_iterations"}

\* C1: in one loop invocation the pass PREPARE .. DECIDE is executed at most
\* 4 times, whatever the loop decisions are.
C1_AtMostFourPasses == passes <= MAX_ITERATIONS

\* C2: deep_think_iteration is 0 (or not yet set) before the first pass and
\* equals k throughout pass k, when the generation stage, the review stage and
\* LoopTerminationAgent read it.
C2_IterationEqualsPass ==
    /\ (pc = "prepare" /\ passes = 0) => state.deep_think_iteration \in {NoneInt, 0}
    /\ pc \in {"generate", "review", "decide", "terminate"}
          => state.deep_think_iteration = passes

\* C3: whenever a loop invocation has ended (stop decision, iteration cap or
\* the 5-pass bound) deep_think_mode is off, deep_think_iteration is 0 and the
\* captured original prompt, content_review and loop_decision are cleared.
C3_StateClearedAfterLoop ==
    LoopEnded =>
        /\ state.deep_think_mode \in {None, "False"}
        /\ state.deep_think_iteration = 0
        /\ state.original_deep_think_prompt \in {None, Absent}
        /\ state.original_prompt = None
        /\ state.content_review = None
        /\ state.loop_decision = NoDecision

\* C4: every loop invocation that runs to its end ends through
\* LoopTerminationAgent's stop branch, with the terminal event (escalate =
\* true); the max_iterations = 5 bound of the loop wrapper never ends it.
C4_EndsThroughStopBranch ==
    LoopEnded =>
        /\ ended_by = "escalate"
        /\ event.kind = "terminal"
        /\ event.escalate

\* C5: LoopTerminationAgent run with deep_think_iteration >= 4 takes the stop
\* branch (terminal event, escalate = true, reason 'Maximum iterations
\* reached', loop left) whatever loop_decision holds.
C5_CapForcesStop ==
    [][(pc = "terminate" /\ state.deep_think_iteration >= 4)
          => /\ event'.kind = "terminal"
             /\ event'.escalate
             /\ event'.reason = "Maximum iterations reached"
             /\ pc' = "idle"
             /\ ended_by' = "escalate"]_vars

\* C5 witness: the cap fired on a counter value of 4 or more and ended the loop.
C5_Witness ==
    /\ event.kind = "terminal"
    /\ event.reason = "Maximum iterations reached"
    /\ event.escalate
    /\ ended_by = "escalate"
    /\ pc = "idle"

\* loop_decision is a LoopDecision record or a dict that says stop
SaysStop(decision) ==
    /\ decision.type \in {"LoopDecision", "dict"}
    /\ decision.should_continue = "False"

\* C6: when LoopTerminationAgent reads a loop_decision (record or dict) whose
\* should_continue is false it yields the escalate event in that pass, the loop
\* is left and no further pass of the invocation starts, at any pass number.
C6_StopDecisionEndsLoop ==
    [][(pc = "terminate" /\ SaysStop(state.loop_decision))
          => /\ event'.kind = "terminal"
             /\ event'.escalate
             /\ pc' = "idle"
             /\ ended_by' = "escalate"
             /\ passes' = passes]_vars

\* C6 witness: a stop decision given as a dict ended the loop in its third pass.
C6_Witness ==
    /\ pc = "idle"
    /\ ended_by = "escalate"
    /\ event.kind = "terminal"
    /\ event.reason = "stated"
    /\ passes = 3

\* C7: every loop invocation terminates: once started, the loop is eventually
\* left, after at most 5 passes, whatever the decisions and the generation
\* outcomes are.
C7_LoopTerminates ==
    (pc # "idle") ~> (pc = "idle" /\ ended_by # "none" /\ passes <= 5)

\* C7 witness: a loop in which every decision said continue and no generation
\* saved anything was left after its fifth pass.
C7_Witness ==
    /\ pc = "idle"
    /\ ended_by = "max_iterations"
    /\ passes = 5
    /\ last_saved = NoneName
    /\ artifacts = <<>>

\* C8: the generation stage is directed to generate_image in pass 1 and to
\* edit_image in every later pass.
C8_CreateThenEdit ==
    pc = "review" =>
        directed = IF passes = 1 THEN "generate_image" ELSE "edit_image"

\* C9: in every pass k > 1 the content_review PREPARE leaves for the generation
\* stage, and the one in PREPARE's context message, is the verdict of pass k-1.
C9_ReviewCarried ==
    [][(pc = "prepare" /\ passes >= 1)
          => /\ state'.content_review = last_review
             /\ context_message'.review = last_review]_vars

\* C10: the terminal event names last_generated_image as it is at termination,
\* and that is the file the latest successful generate/edit of the invocation
\* saved.
C10_TerminalNamesLatest ==
    [][(pc = "terminate" /\ event'.kind = "terminal")
          => /\ event'.final_image = state.last_generated_image
             /\ last_saved # NoneName => event'.final_image = last_saved]_vars

\* C10 witness: the loop stopped after a second pass whose generation stage
\* saved a file, a first pass having saved another one, and the terminal event
\* names the file of the second pass.
C10_Witness ==
    /\ pc = "idle"
    /\ ended_by = "escalate"
    /\ event.kind = "terminal"
    /\ passes = 2
    /\ saved_this_pass
    /\ last_saved # NoneName
    /\ event.final_image = last_saved
    /\ Cardinality(DOMAIN artifacts) = 2

\* C11: whenever the review stage runs, last_generated_image (the artifact the
\* review is asked to evaluate) was saved by the generation stage of that same
\* pass.
C11_ReviewsFreshArtifact ==
    pc = "review" =>
        /\ saved_this_pass
        /\ state.last_generated_image = last_saved

\* C12: after a pass whose generation stage saved nothing, the termination
\* check does not send the loop back to PREPARE.
C12_NoRetryAfterFailure ==
    [][(pc = "terminate" /\ ~saved_this_pass) => pc' # "prepare"]_vars

\* C13: the loop goes back to PREPARE only on a loop_decision that is a
\* LoopDecision record or a dict carrying should_continue = true; an absent
\* decision, a string, or a dict without should_continue never gives a pass.
C13_MalformedDecisionRejected ==
    [][(pc = "terminate" /\ pc' = "prepare")
          => /\ state.loop_decision.type \in {"LoopDecision", "dict"}
             /\ state.loop_decision.should_continue = "True"]_vars

\* C14: the stages of a pass run in the order prepare, capture, generate,
\* review, decide, terminate, one at a time; a pass starts only from the root
\* agent or after the termination check of the pass before it has yielded its
\* continue event.
C14_StagesInOrder ==
    [][/\ pc' # pc =>
            \/ pc = "idle" /\ pc' = "prepare"
            \/ pc = "prepare" /\ pc' = "capture"
            \/ pc = "capture" /\ pc' = "generate"
            \/ pc = "generate" /\ pc' = "review"
            \/ pc = "generate" /\ pc' = "idle" /\ ended_by' = "exception"
            \/ pc = "review" /\ pc' = "decide"
            \/ pc = "decide" /\ pc' = "terminate"
            \/ pc = "terminate" /\ pc' \in {"prepare", "idle"}
       /\ passes' \notin {passes, 0} =>
            /\ pc = "prepare"
            /\ passes' = passes + 1
            /\ passes > 0 => (event.kind = "continue" /\ times_looped = passes)]_vars

\* C14 witness: the second pass of a loop has reached its termination check.
C14_Witness ==
    /\ pc = "terminate"
    /\ passes = 2
    /\ times_looped = 1
    /\ last_review \in ContentReview
    /\ state.content_review = last_review

\* the recorded history of an asset
HistoryOf(s, asset_name) == DictGet(s.history, asset_name, <<>>)

\* C15: for every asset of the ledger, current_version equals the number N of
\* successful generate/edit calls for it (each appends one history entry) and
\* the history versions are 1, 2, ..., N in that order.
C15_VersionCountsCalls ==
    \A asset_name \in DictKeys(state.asset_versions) :
        LET asset_history == HistoryOf(state, asset_name)
        IN  /\ DictGet(state.asset_versions, asset_name, 0) = Len(asset_history)
            /\ \A i \in 1..Len(asset_history) : asset_history[i].version = i

\* the asset a successful call has just recorded a version of
RecordedAsset(before, after) ==
    CHOOSE asset_name \in DictKeys(after.history) :
        HistoryOf(after, asset_name) # HistoryOf(before, asset_name)

\* C16: a successful generate_image or edit_image for asset A saves A_v{n}.png
\* where n is get_next_version_number(A) before the call, and the ledger's
\* current version of A after the call is that same n.
C16_FilenameAndLedgerAgree ==
    [][artifacts' # artifacts =>
          LET asset_name == RecordedAsset(state, state')
              n == get_next_version_number(state, asset_name).returned
          IN  /\ state'.last_generated_image = create_versioned_filename(asset_name, n)
              /\ SavedFile(artifacts, artifacts') = create_versioned_filename(asset_name, n)
              /\ DictGet(state'.asset_versions, asset_name, 0) = n]_vars

\* asset_versions and asset_filenames agree with the last history entry
LedgerConsistent ==
    \A asset_name \in DictKeys(state.history) :
        LET asset_history == HistoryOf(state, asset_name)
            last == asset_history[Len(asset_history)]
        IN  asset_history # <<>> =>
               /\ DictGet(state.asset_versions, asset_name, NoneInt) = last.version
               /\ DictGet(state.asset_filenames, asset_name, NoneName) = last.filename

\* every history is, after a step, an extension of what it was before
AppendOnly ==
    \A asset_name \in DictKeys(state.history) :
        LET old == HistoryOf(state, asset_name)
            new == HistoryOf(state', asset_name)
        IN  /\ Len(new) >= Len(old)
            /\ SubSeq(new, 1, Len(old)) = old

\* C17: in every reachable state asset_versions[asset] and
\* asset_filenames[asset] are the version and filename of the asset's last
\* history entry, and histories only ever grow by appending.
C17_LedgerFollowsHistory ==
    /\ []LedgerConsistent
    /\ [][AppendOnly]_vars

\* C17 witness: an asset has two history entries that differ, the ledger
\* pointing at the second.
C17_Witness ==
    \E asset_name \in DictKeys(state.history) :
        LET asset_history == HistoryOf(state, asset_name)
        IN  /\ Len(asset_history) = 2
            /\ asset_history[1] # asset_history[2]
            /\ DictGet(state.asset_versions, asset_name, NoneInt) = asset_history[2].version
            /\ DictGet(state.asset_filenames, asset_name, NoneName)
                  = asset_history[2].filename

\* C18: get_next_version_number(asset) returns current_version(asset) + 1, 1
\* for an asset never recorded, leaves the session state as it is (no
\* asset_versions entry appears) and returns the same value when called again
\* on the state the first call left, with no update_asset_version in between.
C18_NextVersionIsPure ==
    [][ledger_call'.op = "get_next_version_number" =>
          LET asset_name == ledger_call'.asset_name
          IN  /\ asset_name \in DictKeys(state.asset_versions)
                    => ledger_call'.returned
                          = DictGet(state.asset_versions, asset_name, NoneInt) + 1
              /\ asset_name \notin DictKeys(state.asset_versions)
                    => /\ ledger_call'.returned = 1
                       /\ asset_name \notin DictKeys(state'.asset_versions)
              /\ ledger_call'.returned_again = ledger_call'.returned
              /\ state' = state]_vars

\* C18 witness: the helper was asked about an asset never recorded while
\* another asset stands at version 2, and answered 1 both times.
C18_Witness ==
    /\ ledger_call.op = "get_next_version_number"
    /\ ledger_call.asset_name \notin DictKeys(state.asset_versions)
    /\ ledger_call.returned = 1
    /\ ledger_call.returned_again = 1
    /\ \E other \in DictKeys(state.asset_versions) :
          DictGet(state.asset_versions, other, NoneInt) = 2

\* C19: update_asset_version(asset, version, filename) with
\* version # current_version(asset) + 1 fails with an out-of-order error and
\* leaves asset_versions, asset_filenames and the asset's history unchanged.
C19_OutOfOrderRejected ==
    [][(/\ ledger_call'.op = "update_asset_version"
        /\ ledger_call'.version
              # DictGet(state.asset_versions, ledger_call'.asset_name, 0) + 1)
          => /\ ledger_call'.raised = "OutOfOrderVersionError"
             /\ state'.asset_versions = state.asset_versions
             /\ state'.asset_filenames = state.asset_filenames
             /\ state'.history = state.history]_vars

\* the failure texts of a stream without an image-bearing chunk
NoImageTexts == {"No image was generated", "No edited image was generated"}

\* C20: a generate_image / edit_image call whose model stream holds no image
\* returns a non-empty failure text and leaves asset_versions,
\* asset_filenames, the histories, last_generated_image, current_asset_name
\* and the artifact store unchanged.
C20_NoImageChangesNothing ==
    [][tool_result' \in NoImageTexts =>
          /\ tool_result' # ""
          /\ state'.asset_versions = state.asset_versions
          /\ state'.asset_filenames = state.asset_filenames
          /\ state'.history = state.history
          /\ state'.last_generated_image = state.last_generated_image
          /\ state'.current_asset_name = state.current_asset_name
          /\ artifacts' = artifacts]_vars

\* C20 witness: edit_image loaded a stored artifact, the stream held no image,
\* and the ledger still names the file saved before.
C20_Witness ==
    /\ tool_result = "No edited image was generated"
    /\ state.last_generated_image \in DOMAIN artifacts
    /\ Saves(artifacts) = 1
    /\ LedgerEntries(state) = 1

\* the failure texts of a save_artifact call that raised
SaveErrorTexts ==
    {"Error saving generated image as artifact",
     "Error saving edited image as artifact", "Error: save"}

\* C21: when saving the produced image fails, generate_image / edit_image
\* report it and asset_versions, asset_filenames, the histories,
\* last_generated_image and the store are as they were before the call.
C21_SaveFailureKeepsLedger ==
    [][tool_result' \in SaveErrorTexts =>
          /\ state'.asset_versions = state.asset_versions
          /\ state'.asset_filenames = state.asset_filenames
          /\ state'.history = state.history
          /\ state'.last_generated_image = state.last_generated_image
          /\ artifacts' = artifacts]_vars

\* C21 witness: an edit reached the image model, its save failed, and the
\* ledger still holds the one entry recorded before.
C21_Witness ==
    /\ tool_result = "Error saving edited image as artifact"
    /\ tool_trace.tool = "edit_image"
    /\ tool_trace.model_called
    /\ LedgerEntries(state) = 1
    /\ Saves(artifacts) = 1

\* C22: every generate_image / edit_image call that fails returns an explicit,
\* non-empty failure result.
C22_FailuresAreExplicit ==
    tool_trace.tool # "none" => tool_result # ""

\* C23: edit_image given an artifact_filename the store does not hold (the
\* credential set, the load returning) returns the "Could not find image
\* artifact: {artifact_filename}" text, makes no image-model call, saves
\* nothing and leaves the ledger and both pointers unchanged.
C23_MissingArtifactReported ==
    [][(/\ api_key
        /\ tool_trace'.tool = "edit_image"
        /\ tool_trace'.artifact_filename \notin DOMAIN artifacts
        /\ tool_result' # "Error loading image artifact")
          => /\ tool_result' = "Could not find image artifact"
             /\ ~tool_trace'.model_called
             /\ artifacts' = artifacts
             /\ state' = state]_vars

\* C23 witness: with one image stored, an edit of a file the store does not
\* hold was turned down.
C23_Witness ==
    /\ tool_result = "Could not find image artifact"
    /\ tool_trace.artifact_filename = MISSING_FILE
    /\ ~tool_trace.model_called
    /\ state.last_generated_image \in DOMAIN artifacts

\* C25: with the API credential absent, generate_image and edit_image raise
\* the configuration error first: no model call, no load or save, no change
\* of the session state.
C25_NoCredentialNoEffect ==
    [][(~api_key /\ tool_trace'.tool # "none")
          => /\ tool_result' = "ValueError"
             /\ ~tool_trace'.model_called
             /\ tool_trace'.reference = None
             /\ artifacts' = artifacts
             /\ state' = state]_vars

\* C25 witness: edit_image was called without the credential and raised.
C25_Witness ==
    /\ ~api_key
    /\ tool_trace.tool = "edit_image"
    /\ tool_result = "ValueError"
    /\ artifacts = <<>>

\* C26: after every successful generate_image or edit_image, in both
\* variants, last_generated_image is the file just saved and
\* current_asset_name is the asset that file was recorded under.
C26_PointersFollowSave ==
    [][artifacts' # artifacts =>
          /\ state'.last_generated_image = SavedFile(artifacts, artifacts')
          /\ state'.current_asset_name = RecordedAsset(state, state')]_vars

\* the texts of a call that saved an image
SuccessTexts ==
    {"Image generated successfully", "Faithful reproduction generated",
     "Image edited successfully"}

\* the reference the call asks for cannot be loaded: a name the store does
\* not hold, or 'latest' with no upload stored
Unresolvable(s, store, reference_image_filename) ==
    /\ TruthyName(reference_image_filename)
    /\ IF reference_image_filename = LATEST
       THEN s.latest_reference_image \notin DOMAIN store
       ELSE reference_image_filename \notin DOMAIN store

\* C24: generate_image / edit_image given a reference_image_filename that
\* cannot be resolved reports a failure: it saves nothing and does not answer
\* with a success text.
C24_UnresolvableReferenceFails ==
    [][(/\ tool_trace'.tool # "none"
        /\ Unresolvable(state, artifacts, tool_trace'.reference_image_filename))
          => /\ artifacts' = artifacts
             /\ tool_result' \notin SuccessTexts]_vars

\* the images uploaded so far, in upload order
Uploads == SelectSeq(contents, LAMBDA m : m # None)

\* number of versions held under the given files
RECURSIVE VersionsIn(_, _)
VersionsIn(store, files) ==
    IF files = {} THEN 0
    ELSE LET f == CHOOSE g \in files : TRUE
         IN  Len(store[f]) + VersionsIn(store, files \ {f})

\* number of saves the wardrobe callback has attempted over k requests
RECURSIVE WardrobeSaveAttempts(_)
WardrobeSaveAttempts(k) ==
    IF k = 0 THEN 0
    ELSE Cardinality({i \in 1..k : contents[i] # None}) + WardrobeSaveAttempts(k - 1)

\* every save of an uploaded image has returned
AllReferenceSavesReturned ==
    IF variant = "marketing"
    THEN Len(state.reference_images) = Len(Uploads)
    ELSE VersionsIn(artifacts, ReferenceFiles(artifacts))
            = WardrobeSaveAttempts(Len(contents))

\* the uploaded images the store holds under filename f, in any version
UploadsStoredUnder(store, f) ==
    {store[f][i] : i \in 1..Len(store[f])} \cap UploadedImages

\* C27: after two or more uploads, every one saved, a call that reaches the
\* image model with reference_image_filename = 'latest' uses the most recent
\* upload, and a call naming the file an upload was stored under uses that
\* upload's content.
C27_LatestAndNamedReference ==
    [][(tool_trace'.model_called /\ AllReferenceSavesReturned /\ Len(Uploads) >= 2) =>
          /\ tool_trace'.reference_image_filename = LATEST
                => tool_trace'.reference = Uploads[Len(Uploads)]
          /\ tool_trace'.reference_image_filename \in ReferenceFiles(artifacts)
                => \A upload \in UploadsStoredUnder(
                                     artifacts, tool_trace'.reference_image_filename) :
                      tool_trace'.reference = upload]_vars

\* the registry's k-th entry is reference_image_v{k}.png with ordinal k, no
\* other entry has that name, and the store holds exactly one upload under it
RegistryWellFormed(s, store) ==
    \A k \in 1..Len(s.reference_images) :
        LET entry == s.reference_images[k]
        IN  /\ entry.k = marketing_reference_filename(k)
            /\ entry.v.version = k
            /\ entry.k \in DOMAIN store
            /\ \A j \in 1..Len(s.reference_images) :
                  j # k => s.reference_images[j].k # entry.k
            /\ Cardinality({i \in 1..Len(store[entry.k]) :
                                store[entry.k][i] \in UploadedImages}) = 1

\* C28: in the marketing variant the reference_images registry only grows,
\* its entries are never changed or removed, the k-th stored upload is
\* registered as reference_image_v{k}.png with ordinal k and holds the image
\* uploaded, and no two uploads are stored under one filename.
C28_RegistryAppendOnly ==
    /\ [](variant = "marketing" => RegistryWellFormed(state, artifacts))
    /\ [][variant = "marketing" =>
             LET before == state.reference_images
                 after == state'.reference_images
             IN  /\ Len(after) \in {Len(before), Len(before) + 1}
                 /\ SubSeq(after, 1, Len(before)) = before
                 /\ Len(after) = Len(before) + 1 =>
                       load_artifact(artifacts', after[Len(after)].k)
                           = contents'[Len(contents')]]_vars

\* C28 witness: two uploads are registered, after a generated image was saved
\* in between or afterwards.
C28_Witness ==
    /\ variant = "marketing"
    /\ Len(state.reference_images) = 2
    /\ LedgerEntries(state) = 1

\* C29: in both variants list_reference_images reports every upload that has
\* been stored, and answers 'No reference images have been uploaded yet.'
\* only when none has been stored.
C29_ListingReportsUploads ==
    listing.header \in {"No reference images have been uploaded yet.",
                        "Available reference images:"}
        => LET stored == {f \in ReferenceFiles(artifacts) :
                              UploadsStoredUnder(artifacts, f) # {}}
           IN  /\ (listing.header = "No reference images have been uploaded yet.")
                      <=> (stored = {})
               /\ \A f \in stored :
                     \E i \in 1..Len(listing.lines) : listing.lines[i].filename = f

\* C30: get_asset_versions_info lists every recorded asset exactly once, in
\* the order the assets were first recorded, each with total_versions = the
\* length of its history, its current version and the filename of its last
\* history entry; it answers 'No marketing assets have been created yet.'
\* exactly when nothing has been recorded.
C30_ListingMatchesLedger ==
    [][(/\ listing' # listing
        /\ listing'.header \in {"No marketing assets have been created yet.",
                                "Current marketing assets:"})
          => IF state.history = <<>>
             THEN listing' = [header |-> "No marketing assets have been created yet.",
                              lines |-> <<>>]
             ELSE /\ listing'.header = "Current marketing assets:"
                  /\ Len(listing'.lines) = Len(state.history)
                  /\ \A i \in 1..Len(state.history) :
                        LET line == listing'.lines[i]
                            asset_history == state.history[i].v
                        IN  /\ line.asset_name = state.history[i].k
                            /\ line.total_versions = Len(asset_history)
                            /\ line.current_version =
                                  DictGet(state.asset_versions, line.asset_name, NoneInt)
                            /\ line.latest_filename =
                                  asset_history[Len(asset_history)].filename]_vars

\* C30 witness: two assets are listed, the first one with two versions.
C30_Witness ==
    /\ listing.header = "Current marketing assets:"
    /\ Len(listing.lines) = 2
    /\ Len(state.history) = 2
    /\ listing.lines[1].asset_name = state.history[1].k
    /\ listing.lines[1].total_versions = 2
    /\ listing.lines[2].total_versions = 1

\* the phrase, spelled in any letter casing, occurs in the given text
HasPhraseAnyCasing(text) ==
    \E i \in 1..(Len(text) - 2) :
        /\ text[i] \in DeepWords
        /\ text[i + 1] = SPACE
        /\ text[i + 2] \in ThinkWords

\* the text of the message: its text parts, each followed by a blank
RECURSIVE ConcatenatedText(_, _)
ConcatenatedText(parts, i) ==
    IF i > Len(parts) THEN <<>>
    ELSE (IF parts[i].inline_data = None THEN parts[i].text \o <<SPACE>> ELSE <<>>)
            \o ConcatenatedText(parts, i + 1)

\* C31: after detect_deep_think_callback has processed a user message,
\* deep_think_mode is true if and only if the message's concatenated text
\* holds the phrase 'deep think' in some letter casing; otherwise it is
\* false, whatever it was before.
C31_ModeFollowsPhrase ==
    [][pc = "before_agent" =>
          state'.deep_think_mode =
              IF HasPhraseAnyCasing(ConcatenatedText(user_content, 1))
              THEN "True" ELSE "False"]_vars

\* C31 witness: the message spelled the phrase in mixed casing and the
\* callback has set the mode and kept the prompt.
C31_Witness ==
    /\ pc = "idle"
    /\ state.deep_think_mode = "True"
    /\ state.original_deep_think_prompt = <<"Deep", SPACE, "THINK">>
    /\ Len(user_content) = 1

\* the parts that carry no text, in order
NonTextParts(parts) == SelectSeq(parts, LAMBDA part : part.inline_data # None)

\* C32: whenever detect_deep_think_callback detects deep-think mode, the
\* cleaned message holds exactly one text part, that part no longer holds the
\* phrase in any letter casing, and the non-text parts are kept in order.
C32_CleanedMessage ==
    [][(pc = "before_agent" /\ state'.deep_think_mode = "True") =>
          /\ Len(SelectSeq(user_content', LAMBDA part : part.inline_data = None)) = 1
          /\ ~HasPhraseAnyCasing(ConcatenatedText(user_content', 1))
          /\ NonTextParts(user_content') = NonTextParts(user_content)]_vars

\* C33: over any sequence of successful generate_image / edit_image calls no
\* two calls save under the same filename: each success creates a filename
\* the store did not hold before.
C33_FilenamesNeverReused ==
    [][(artifacts' # artifacts /\ tool_trace'.tool # "none")
          => SavedFile(artifacts, artifacts') \notin DOMAIN artifacts]_vars

\* the asset whose history holds the given file
OwnersOf(s, filename) ==
    {asset_name \in DictKeys(s.history) :
        \E i \in 1..Len(HistoryOf(s, asset_name)) :
            HistoryOf(s, asset_name)[i].filename = filename}

\* C34: edit_image called without asset_name on an artifact A_v{k}.png that
\* was produced for asset A records the new version under asset A, in both
\* variants and for every asset name.
C34_EditKeepsAsset ==
    [][(/\ artifacts' # artifacts
        /\ tool_trace'.tool = "edit_image"
        /\ tool_trace'.asset_name = NoneName)
          => \A asset_name \in Assets :
                (/\ asset_name \in OwnersOf(state, tool_trace'.artifact_filename)
                 /\ \E k \in 1..(MaxSaves + 1) :
                       tool_trace'.artifact_filename
                           = create_versioned_filename(asset_name, k))
                   => RecordedAsset(state, state') = asset_name]_vars

\* C35: LoopTerminationAgent's stop branch changes only deep_think_mode,
\* deep_think_iteration, original_deep_think_prompt, content_review and
\* loop_decision; the ledger, the reference images, last_generated_image,
\* current_asset_name and the store are as before. The continue branch
\* changes no session state.
C35_TerminationFrame ==
    [][pc = "terminate" =>
          /\ artifacts' = artifacts
          /\ IF event'.kind = "terminal"
             THEN state' = [state EXCEPT
                               !.deep_think_mode = state'.deep_think_mode,
                               !.deep_think_iteration = state'.deep_think_iteration,
                               !.original_deep_think_prompt =
                                   state'.original_deep_think_prompt,
                               !.content_review = state'.content_review,
                               !.loop_decision = state'.loop_decision]
             ELSE state' = state]_vars

\* C35 witness: the stop branch has run on a session that holds a generated
\* image and an uploaded reference; both are still recorded.
C35_Witness ==
    /\ pc = "idle"
    /\ ended_by = "escalate"
    /\ event.kind = "terminal"
    /\ state.deep_think_mode = "False"
    /\ state.content_review = None
    /\ state.last_generated_image = create_versioned_filename(DEFAULT_ASSET, 1)
    /\ state.current_asset_name = DEFAULT_ASSET
    /\ Len(state.history) = 1
    /\ state.latest_reference_image = UPLOADED_REFERENCE
    /\ Len(state.reference_images) = 1

\* C36: a generate_image call that names no reference image sends no
\* reference image to the image model, in both variants, even when reference
\* images have been uploaded earlier in the session.
C36_NoReferenceUnlessNamed ==
    [][(/\ tool_trace'.tool = "generate_image"
        /\ tool_trace'.reference_image_filename = NoneName)
          => tool_trace'.reference = None]_vars

\* C37: the upload-detection callback run before a later model call, on a
\* request whose new message carries no image while earlier uploads are still
\* in the contents, stores no further reference artifact and leaves 'latest'
\* pointing at the same upload.
C37_UploadStoredOnce ==
    [][(/\ Len(contents') = Len(contents) + 1
        /\ contents'[Len(contents')] = None)
          => /\ artifacts' = artifacts
             /\ ReferencePart(state', artifacts', "edit_image", LATEST)
                   = ReferencePart(state, artifacts, "edit_image", LATEST)]_vars
====
